---------------------------- MODULE Spec2Model ----------------------------
(***************************************************************************)
(* A model of the ETL coordinator of pudl (src/src/pudl/etl_pkg.py): the   *)
(* per-dataset input validators, the bundle validator validate_input, the  *)
(* package coordinator etl_pkg and the dataset adapters, with the          *)
(* streaming emissions (EPA CEMS) adapter modelled step by step.           *)
(*                                                                         *)
(* Encoding of Python values:                                              *)
(*  - a dict is a function whose domain is the set of its keys; the empty  *)
(*    dict is the function with the empty domain;                          *)
(*  - a list is a sequence; years are written as their decimal strings;    *)
(*  - None inside a list or as a dict value is the string None;            *)
(*  - _validate_input_partition writes 'partition': None into the          *)
(*    partition dict of its argument; the dict is returned, and the        *)
(*    argument of the caller holds the same dict: the operators named      *)
(*    *_arg give the argument as the call leaves it, and the actions       *)
(*    store it back where the argument came from;                          *)
(*  - the outcome of a call is a record [out, exc, msg, val]: out is       *)
(*    "dict" (val is the returned dict), "None" (the call returned None)   *)
(*    or "raise" (exc and msg are the exception's type and message).       *)
(***************************************************************************)
EXTENDS Naturals, Sequences, FiniteSets, TLC

(***************************************************************************)
(* Python values and dict operations                                       *)
(***************************************************************************)
None == "None"

EmptyDict == [k \in {} |-> None]

Put(d, k, v) == [x \in (DOMAIN d) \cup {k} |-> IF x = k THEN v ELSE d[x]]

\* try: d[k]  except KeyError: default
Get(d, k, default) == IF k \in DOMAIN d THEN d[k] ELSE default

Range(s) == {s[i] : i \in 1..Len(s)}

\* iter(d): a dict is iterated in the order its keys were inserted.  The
\* encoding of a dict keeps the keys and not that order, so one dict of the
\* model stands for the Python dicts of every insertion order: KeyOrders is
\* the set of the key lists they iterate as.
KeyOrders(d) ==
    {s \in [1..Cardinality(DOMAIN d) -> DOMAIN d] :
        \A k \in DOMAIN d : \E i \in DOMAIN s : s[i] = k}

\* list(dict.fromkeys(s)): the keys of a dict built from the list s, each
\* name once, at the place of its first occurrence.
RECURSIVE Unique(_)
Unique(s) ==
    IF s = <<>> THEN <<>>
    ELSE LET init == Unique(SubSeq(s, 1, Len(s) - 1))
             last == s[Len(s)]
         IN  IF last \in Range(init) THEN init ELSE Append(init, last)

Return(d) == [out |-> "dict", exc |-> "", msg |-> "", val |-> d]

ReturnNone == [out |-> "None", exc |-> "", msg |-> "", val |-> EmptyDict]

Raise(e, m) == [out |-> "raise", exc |-> e, msg |-> m, val |-> EmptyDict]

\* Python truth value of what a validator returned: None and {} are false.
Truthy(r) == r.out = "dict" /\ DOMAIN r.val # {}

\* s.lower() == 'all' for a str s: true of the eight spellings of 'all' in
\* upper and lower case and of no other string.
lower_is_all(s) ==
    s \in {"all", "ALL", "All", "ALl", "AlL", "aLL", "aLl", "alL"}

(***************************************************************************)
(* pudl.constants: the fixed universes the validators check against,       *)
(* abridged to a few members each.  As in pudl, every working year of      *)
(* eia860 is a working year of eia923 and not the other way round, and     *)
(* epacems_tables is a single table name.                                  *)
(***************************************************************************)
working_years_eia860 == {"2016", "2017"}

working_years_eia923 == {"2015", "2016", "2017"}

working_years_ferc1 == {"2016", "2017"}

working_years_epacems == {"2016", "2017", "2018"}

eia860_pudl_tables == {"plants_eia860", "generators_eia860"}

eia923_pudl_tables == {"boiler_fuel_eia923", "generation_eia923",
                       "fuel_receipts_costs_eia923"}

ferc1_pudl_tables == {"fuel_ferc1", "plants_steam_ferc1"}

epaipm_pudl_tables == {"transmission_single_epaipm"}

pudl_tables_eia860 == <<"plants_eia860", "generators_eia860">>

pudl_tables_eia923 == <<"boiler_fuel_eia923", "generation_eia923",
                        "fuel_receipts_costs_eia923">>

pudl_tables_ferc1 == <<"fuel_ferc1", "plants_steam_ferc1">>

cems_states_keys == <<"CO", "ID">>

epacems_tables == "hourly_emissions_epacems"

(***************************************************************************)
(* _validate_input_partition                                               *)
(***************************************************************************)
\* The loop over tables: the first table decides.  A table that is not a
\* key of partition_dict raises KeyError (caught by the caller's except);
\* a table whose partition is not a key of etl_params_og raises
\* AssertionError.
RECURSIVE partition_loop(_, _, _)
partition_loop(etl_params_og, partition_dict, tables) ==
    IF tables = <<>> THEN "ok"
    ELSE IF Head(tables) \notin DOMAIN partition_dict THEN "KeyError"
    ELSE IF partition_dict[Head(tables)] \notin DOMAIN etl_params_og
         THEN "AssertionError"
    ELSE partition_loop(etl_params_og, partition_dict, Tail(tables))

_validate_input_partition(etl_params_og, tables) ==
    IF "partition" \notin DOMAIN etl_params_og
    THEN Return(Put(EmptyDict, "partition", None))
    ELSE LET partition_dict == etl_params_og["partition"]
             loop == partition_loop(etl_params_og, partition_dict, tables)
         IN  IF loop = "AssertionError"
             THEN Raise("AssertionError", "Partion not recognized")
             ELSE IF loop = "KeyError"
             THEN Return(Put(partition_dict, "partition", None))
             ELSE Return(partition_dict)

\* etl_params_og as the call leaves it.  partition_dict is the dict object
\* etl_params_og['partition'] (line 20), so the assignment of line 27 on the
\* KeyError path shows in the argument; with no 'partition' key the
\* assignment goes to the fresh dict of line 18 and the argument is as it
\* was, as it is when AssertionError is raised.
_validate_input_partition_arg(etl_params_og, tables) ==
    LET r == _validate_input_partition(etl_params_og, tables)
    IN  IF "partition" \in DOMAIN etl_params_og /\ r.out = "dict"
        THEN [etl_params_og EXCEPT !["partition"] = r.val]
        ELSE etl_params_og

(***************************************************************************)
(* _validate_input_eia                                                     *)
(***************************************************************************)
eia_defaults(etl_params) ==
    [eia860_years  |-> Get(etl_params, "eia860_years", <<>>),
     eia860_tables |-> Get(etl_params, "eia860_tables", pudl_tables_eia860),
     eia923_years  |-> Get(etl_params, "eia923_years", <<>>),
     eia923_tables |-> Get(etl_params, "eia923_tables", pudl_tables_eia923)]

\* A variant of eia_only_860 that infers the years and leaves the tables of
\* the raw configuration alone.
eia_only_860_years_only(d) ==
    IF d.eia923_years = <<>> /\ d.eia860_years # <<>>
    THEN [d EXCEPT !.eia923_years = d.eia860_years]
    ELSE d

eia_only_860(d) ==
    IF d.eia923_years = <<>> /\ d.eia860_years # <<>>
    THEN [d EXCEPT !.eia923_years = d.eia860_years,
                   !.eia923_tables = <<"boiler_fuel_eia923",
                                       "generation_eia923">>]
    ELSE d

eia_only_923(d) ==
    IF d.eia860_years = <<>> /\ d.eia923_years # <<>>
    THEN [d EXCEPT !.eia860_years = d.eia923_years]
    ELSE d

_validate_input_eia(etl_params) ==
    LET eia_input_dict == eia_only_923(eia_only_860(eia_defaults(etl_params)))
    IN  IF \E t \in Range(eia_input_dict.eia860_tables) :
              t \notin eia860_pudl_tables
        THEN Raise("AssertionError", "Unrecognized EIA 860 table")
        ELSE IF \E t \in Range(eia_input_dict.eia923_tables) :
              t \notin eia923_pudl_tables
        THEN Raise("AssertionError", "Unrecogized EIA 923 table")
        ELSE IF \E y \in Range(eia_input_dict.eia860_years) :
              y \notin working_years_eia860
        THEN Raise("AssertionError", "Unrecognized EIA 860 year")
        ELSE IF \E y \in Range(eia_input_dict.eia923_years) :
              y \notin working_years_eia923
        THEN Raise("AssertionError", "Unrecognized EIA 923 year")
        ELSE IF eia_input_dict.eia923_years = <<>>
                /\ eia_input_dict.eia860_years = <<>>
        THEN ReturnNone
        ELSE Return(eia_input_dict)

(***************************************************************************)
(* _validate_input_ferc1                                                   *)
(***************************************************************************)
ferc1_defaults(etl_params) ==
    [ferc1_years   |-> Get(etl_params, "ferc1_years", <<None>>),
     ferc1_tables  |-> Get(etl_params, "ferc1_tables", pudl_tables_ferc1),
     ferc1_testing |-> Get(etl_params, "ferc1_testing", FALSE),
     debug         |-> Get(etl_params, "debug", FALSE)]

_validate_input_ferc1(etl_params) ==
    LET ferc1_dict == ferc1_defaults(etl_params)
    IN  IF ~ferc1_dict.debug
           /\ \E t \in Range(ferc1_dict.ferc1_tables) :
                 t \notin ferc1_pudl_tables
        THEN Raise("AssertionError", "Unrecognized FERC table")
        ELSE IF ferc1_dict.ferc1_years = <<>>
        THEN Return(EmptyDict)
        ELSE Return(ferc1_dict)

(***************************************************************************)
(* _validate_input_epacems                                                 *)
(***************************************************************************)
epacems_states_all(states) ==
    IF states # <<>> /\ lower_is_all(states[1])
    THEN cems_states_keys
    ELSE states

\* Line 326 calls .lower() on the first state: None has no such attribute.
\* (None inside a list is the string None of the encoding.)
epacems_states_no_lower(etl_params) ==
    LET states == Get(etl_params, "epacems_states", <<>>)
    IN  states # <<>> /\ states[1] = None

_validate_input_epacems(etl_params) ==
    LET years  == Get(etl_params, "epacems_years", <<None>>)
        states == epacems_states_all(Get(etl_params, "epacems_states", <<>>))
        part   == _validate_input_partition(etl_params, <<epacems_tables>>)
    IN  IF epacems_states_no_lower(etl_params)
        THEN Raise("AttributeError",
                   "'NoneType' object has no attribute 'lower'")
        ELSE IF part.out = "raise" THEN part
        ELSE IF DOMAIN part.val = {}
        THEN Raise("AssertionError", "No partition found for EPA CEMS")
        ELSE IF years = <<>> \/ states = <<>>
        THEN ReturnNone
        ELSE Return([epacems_years  |-> years,
                     epacems_states |-> states,
                     partition      |-> part.val])

\* etl_params as _validate_input_epacems leaves it: the call of lines
\* 329-330 is made on every path that gets past line 326.
_validate_input_epacems_arg(etl_params) ==
    IF epacems_states_no_lower(etl_params) THEN etl_params
    ELSE _validate_input_partition_arg(etl_params, <<epacems_tables>>)

(***************************************************************************)
(* _validate_input_epaipm                                                  *)
(***************************************************************************)
_validate_input_epaipm(etl_params) ==
    Return([epaipm_tables |-> Get(etl_params, "epaipm_tables", <<None>>)])

(***************************************************************************)
(* _validate_input_glue                                                    *)
(***************************************************************************)
_validate_input_glue(etl_params) ==
    LET glue_dict == [ferc1 |-> Get(etl_params, "ferc1", FALSE),
                      eia   |-> Get(etl_params, "eia", FALSE)]
    IN  IF ~glue_dict.ferc1 /\ ~glue_dict.eia
        THEN Return(EmptyDict)
        ELSE Return(glue_dict)

(***************************************************************************)
(* Collaborators (pudl.extract, pudl.transform, pudl.glue, pudl.load).     *)
(* Every call is recorded in the io log; the tables a transformation       *)
(* returns are the tables it was asked for.                                *)
(***************************************************************************)
IO(op, arg) == [op |-> op, arg |-> arg, part |-> ""]

IOAdd(table_name, part) == [op |-> "add", arg |-> table_name, part |-> part]

static_tables_eia == <<"fuel_type_eia923", "prime_movers_eia923",
                       "fuel_type_aer_eia923", "energy_source_eia923",
                       "transport_modes_eia923">>

static_tables_ferc == <<"ferc_accounts", "ferc_depreciation_lines">>

static_tables_epaipm == <<"regions_entity_epaipm">>

entities_eia == <<"plants_entity_eia">>

glue_ferc1_eia(ferc1, eia) ==
    (IF ferc1 THEN <<"plants_ferc">> ELSE <<>>)
        \o (IF eia THEN <<"plants_eia">> ELSE <<>>)

(***************************************************************************)
(* The non-streaming adapters.  The outcome of an adapter is a record      *)
(* [out, exc, msg, tbls, io]: out is "list" (tbls is the returned list),   *)
(* "str" (the adapter returned a string) or "raise"; io is the sequence of *)
(* collaborator calls it made.                                             *)
(***************************************************************************)
Tables(tbls, io) ==
    [out |-> "list", exc |-> "", msg |-> "", tbls |-> tbls, io |-> io]

Fails(e, m) ==
    [out |-> "raise", exc |-> e, msg |-> m, tbls |-> <<>>, io |-> <<>>]

_load_static_tables_eia == <<IO("dict_dump", "Static EIA Tables")>>

_etl_eia_pkg(etl_params) ==
    LET eia_inputs == _validate_input_eia(etl_params)
        v == eia_inputs.val
    IN  IF eia_inputs.out = "raise"
        THEN Fails(eia_inputs.exc, eia_inputs.msg)
        ELSE IF eia_inputs.out = "None"
        THEN Fails("TypeError", "'NoneType' object is not subscriptable")
        ELSE IF (v.eia923_tables = <<>> \/ v.eia923_years = <<>>)
                /\ (v.eia860_tables = <<>> \/ v.eia860_years = <<>>)
        THEN Tables(<<>>, <<>>)
        ELSE Tables(Unique(v.eia860_tables \o v.eia923_tables)
                        \o entities_eia \o static_tables_eia,
                    _load_static_tables_eia
                        \o <<IO("extract", "eia923"), IO("extract", "eia860"),
                             IO("transform", "eia923"),
                             IO("transform", "eia860"),
                             IO("transform", "eia"),
                             IO("dict_dump", "Entities"),
                             IO("dict_dump", "EIA")>>)

_load_static_tables_ferc == <<IO("dict_dump", "Static FERC Tables")>>

_etl_ferc1_pkg(etl_params) ==
    LET ferc1_inputs == _validate_input_ferc1(etl_params)
        v == ferc1_inputs.val
    IN  IF ferc1_inputs.out = "raise"
        THEN Fails(ferc1_inputs.exc, ferc1_inputs.msg)
        ELSE IF "ferc1_years" \notin DOMAIN v
        THEN Fails("KeyError", "ferc1_years")
        ELSE IF v.ferc1_years = <<>> \/ v.ferc1_tables = <<>>
        THEN Tables(<<>>, <<>>)
        ELSE Tables(Unique(v.ferc1_tables) \o static_tables_ferc,
                    _load_static_tables_ferc
                        \o <<IO("extract", "ferc1"), IO("transform", "ferc1"),
                             IO("dict_dump", "FERC 1")>>)

_load_static_tables_epaipm == <<IO("dict_dump", "Static IPM Tables")>>

_etl_epaipm(etl_params) ==
    LET epaipm_dict == _validate_input_epaipm(etl_params)
        epaipm_tables == epaipm_dict.val.epaipm_tables
    IN  Tables(Unique(epaipm_tables) \o static_tables_epaipm,
               _load_static_tables_epaipm
                   \o <<IO("extract", "epaipm"), IO("transform", "epaipm"),
                        IO("dict_dump", "EPA IPM")>>)

\* The string _etl_glue returns when neither flag is set, as the sequence of
\* its characters: etl_pkg extends its list of tables with it.
not_werking ==
    <<"a", "h", "h", "h", "h", " ", "t", "h", "i", "s", " ", "i",
      "s", " ", "n", "o", "t", " ", "w", "e", "r", "k", "i", "n",
      "g">>

_etl_glue(etl_params) ==
    LET glue_dict == _validate_input_glue(etl_params).val
    IN  IF "ferc1" \notin DOMAIN glue_dict
        THEN Fails("KeyError", "ferc1")
        ELSE IF ~glue_dict.eia /\ ~glue_dict.ferc1
        THEN [out |-> "str", exc |-> "", msg |-> "ahhhh this is not werking",
              tbls |-> not_werking, io |-> <<>>]
        ELSE Tables(glue_ferc1_eia(glue_dict.ferc1, glue_dict.eia),
                    <<IO("glue", "ferc1_eia"), IO("dict_dump", "Glue")>>)

(***************************************************************************)
(* Inputs.  A raw configuration is built from one option per key; the      *)
(* option Absent leaves the key out of the dict.                           *)
(***************************************************************************)
Absent == <<"<absent>">>

Opt(k, v) == IF v = Absent THEN EmptyDict ELSE [x \in {k} |-> v]

Flag(k, v) ==
    IF v = "absent" THEN EmptyDict ELSE [x \in {k} |-> (v = "True")]

EiaParams ==
    { Opt("eia860_years", y860) @@ Opt("eia860_tables", t860)
        @@ Opt("eia923_years", y923) @@ Opt("eia923_tables", t923) :
        y860 \in {Absent, <<>>, <<"2016">>, <<"2015">>, <<"1800">>},
        t860 \in {Absent, <<>>, <<"plants_eia860">>, <<"bogus">>},
        y923 \in {Absent, <<>>, <<"2015">>, <<"2017">>, <<"1800">>},
        t923 \in {Absent, <<>>, <<"fuel_receipts_costs_eia923">>,
                  <<"bogus">>} }

Ferc1Params ==
    { Opt("ferc1_years", y) @@ Opt("ferc1_tables", t)
        @@ Flag("debug", d) @@ Flag("ferc1_testing", g) :
        y \in {Absent, <<>>, <<"2017">>, <<"1800">>},
        t \in {Absent, <<>>, <<"fuel_ferc1">>, <<"bogus">>},
        d \in {"absent", "True", "False"},
        g \in {"absent", "True"} }

\* The 'partition' entry of an emissions configuration.
PartitionOpts ==
    { [x \in {"<absent>"} |-> ""],
      EmptyDict,
      [x \in {epacems_tables} |-> "epacems_years"],
      [x \in {epacems_tables} |-> "epacems_states"],
      [x \in {epacems_tables} |-> "bogus"],
      [x \in {epacems_tables} |-> "partition"],
      [x \in {"hourly_emissions_other"} |-> "epacems_years"] }

OptPartition(v) ==
    IF "<absent>" \in DOMAIN v THEN EmptyDict ELSE [x \in {"partition"} |-> v]

EpacemsParams ==
    { Opt("epacems_years", y) @@ Opt("epacems_states", s) @@ OptPartition(p) :
        y \in {Absent, <<>>, <<"2017">>, <<"2016", "2017", "2018">>,
               <<"1800">>},
        s \in {Absent, <<>>, <<"ID">>, <<"ID", "CO">>, <<"ALL">>, <<"aLL">>,
               <<"ZZ">>, <<None>>},
        p \in PartitionOpts }

\* Emissions configurations that carry one more key, and partition by it.
EpacemsExtraKeyParams ==
    { Opt("epacems_years", y) @@ Opt("epacems_states", s)
          @@ Opt("epacems_months", <<"1">>)
          @@ OptPartition([x \in {epacems_tables} |-> "epacems_months"]) :
        y \in {<<"2017">>, <<"2016", "2017", "2018">>},
        s \in {<<"ID">>, <<"ALL">>} }

GlueParams ==
    { Flag("ferc1", f) @@ Flag("eia", e) :
        f \in {"absent", "True", "False"},
        e \in {"absent", "True", "False"} }

EpaipmParams ==
    { Opt("epaipm_tables", t) :
        t \in {Absent, <<>>, <<"transmission_single_epaipm">>,
               <<"bogus">>} }

Item(dataset, params) == [dataset |-> dataset, params |-> params]

\* Every (dataset kind, raw configuration) pair the validators are applied to.
ValidatorInputs ==
    {Item("eia", c) : c \in EiaParams}
        \cup {Item("ferc1", c) : c \in Ferc1Params}
        \cup {Item("epacems", c) : c \in EpacemsParams}
        \cup {Item("epacems", c) : c \in EpacemsExtraKeyParams}
        \cup {Item("glue", c) : c \in GlueParams}
        \cup {Item("epaipm", c) : c \in EpaipmParams}

(***************************************************************************)
(* Packages and bundles.  A dataset dict is the sequence of its            *)
(* (dataset, params) items in insertion order; a package is a record       *)
(* [name, title, description, datasets].                                   *)
(***************************************************************************)
MaxDatasets == 2

MaxPkgs == 2

MaxChunks == 3

Kinds == {"eia", "ferc1", "epacems", "glue", "epaipm"}

PkgNames == {"a", "b"}

Pkg(name, datasets) ==
    [name |-> name, title |-> "t-" \o name, description |-> "d-" \o name,
     datasets |-> datasets]

SeqsUpTo(S, n) == UNION { [1..m -> S] : m \in 0..n }

EpacemsByYears ==
    [epacems_years |-> <<"2016", "2017", "2018">>,
     epacems_states |-> <<"ID", "CO">>,
     partition |-> [x \in {epacems_tables} |-> "epacems_years"]]

EpacemsByStates ==
    [epacems_years |-> <<"2017">>,
     epacems_states |-> <<"ID", "CO">>,
     partition |-> [x \in {epacems_tables} |-> "epacems_states"]]

EpacemsOneYear ==
    [epacems_years |-> <<"2017">>,
     epacems_states |-> <<"ID">>,
     partition |-> [x \in {epacems_tables} |-> "epacems_years"]]

EpacemsNoPartition ==
    [epacems_years |-> <<"2017">>, epacems_states |-> <<"ID">>]

EpacemsNoStates ==
    [epacems_years |-> <<"2017">>,
     partition |-> [x \in {epacems_tables} |-> "epacems_years"]]

EpacemsByPartitionDictOfTwo ==
    [epacems_years |-> <<"2017">>,
     epacems_states |-> <<"aLL">>,
     partition |-> [x \in {epacems_tables, "zzz"} |->
                       IF x = "zzz" THEN "x" ELSE "partition"]]

\* The dataset items etl_pkg is run on directly.
EtlItems ==
    {Item(k, EmptyDict) : k \in Kinds \cup {"foo"}}
        \cup {Item("eia", [eia860_years |-> <<"2016">>]),
              Item("ferc1", [ferc1_years |-> <<"2017">>]),
              Item("ferc1", [ferc1_years |-> <<>>]),
              Item("ferc1", [ferc1_years |-> <<"2017">>,
                             ferc1_tables |-> <<"fuel_ferc1", "fuel_ferc1">>]),
              Item("epacems", EpacemsByPartitionDictOfTwo),
              Item("epacems", EpacemsByYears),
              Item("epacems", EpacemsByStates),
              Item("epacems", EpacemsNoPartition),
              Item("epacems", EpacemsNoStates),
              Item("glue", [ferc1 |-> TRUE, eia |-> TRUE]),
              Item("epaipm",
                   [epaipm_tables |-> <<"transmission_single_epaipm">>])}

\* Dataset dicts with one key each, and one dataset dict with two keys.
EtlPackages ==
    {Pkg("a", [i \in DOMAIN ds |-> <<ds[i]>>]) :
        ds \in SeqsUpTo(EtlItems, MaxDatasets)}
        \cup {Pkg("a", << <<Item("glue", [ferc1 |-> TRUE, eia |-> TRUE]),
                           Item("eia", [eia860_years |-> <<"2016">>])>> >>)}

\* The dataset lists of the packages bundles are made of.
BundleDatasets ==
    { << <<Item(k, EmptyDict)>> >> : k \in Kinds }
        \cup { << <<Item("eia", [eia860_years |-> <<"2016">>])>> >>,
               << <<Item("eia", EmptyDict)>>,
                  <<Item("ferc1", [ferc1_years |-> <<>>])>>,
                  <<Item("glue", EmptyDict)>> >>,
               << <<Item("glue", EmptyDict)>>,
                  <<Item("epacems", EpacemsOneYear)>>,
                  <<Item("eia", EmptyDict)>>,
                  <<Item("glue", [eia |-> TRUE])>> >>,
               << <<Item("eia", [eia860_years |-> <<"1800">>])>> >>,
               << <<Item("foo", EmptyDict)>> >>,
               << <<Item("ferc1", [ferc1_years |-> <<"2017">>,
                                   ferc1_tables |-> <<>>]),
                    Item("eia", [eia923_years |-> <<"2017">>])>> >> }

BundlePackages == { Pkg(n, ds) : n \in PkgNames, ds \in BundleDatasets }

Bundles == SeqsUpTo(BundlePackages, MaxPkgs)

\* for dataset_dict in datasets: for dataset in dataset_dict
RECURSIVE Flatten(_)
Flatten(datasets) ==
    IF datasets = <<>> THEN <<>>
    ELSE Head(datasets) \o Flatten(Tail(datasets))

(***************************************************************************)
(* State                                                                   *)
(***************************************************************************)
VARIABLES
    entry,              \* the function the run entered: "validator",
                        \* "validate_input" or "etl_pkg"
    pc,                 \* position of the run
    err,                \* the exception that ended the run, if any
    vin, vout,          \* argument and outcome of a single validator call
    bundle,             \* validate_input: pkg_bundle_settings
    ipkg, ids,          \* validate_input: index of pkg, of dataset item
    dataset_dicts,      \* validate_input: dataset_dicts of the current pkg
    validated_settings, \* validate_input: validated_settings
    queue, iq,          \* the packages etl_pkg is run on, and the current one
    ie,                 \* etl_pkg: index of the current dataset item
    tables,             \* etl_pkg: tables
    invoked,            \* etl_pkg: the adapters invoked so far, in order
    returned,           \* what each completed etl_pkg call returned
    fs,                 \* output locations: pkg name -> [exists, files]
    io,                 \* log of the collaborator and file system calls
    requests,           \* log of the emissions extraction requests
    open,               \* table names of the open writer sessions
    ep                  \* locals of _etl_epacems_pkg / _etl_epacems_part

vars == <<entry, pc, err, vin, vout, bundle, ipkg, ids, dataset_dicts,
          validated_settings, queue, iq, ie, tables, invoked, returned, fs,
          io, requests, open, ep>>

vars_validator == <<vin, vout>>

vars_bundle == <<bundle, ipkg, ids, dataset_dicts, validated_settings>>

vars_etl == <<queue, iq, ie, tables, invoked, returned, fs, io, requests,
              open, ep>>

NoErr == [out |-> "ok", exc |-> "", msg |-> "", val |-> EmptyDict]

NoDir == [exists |-> FALSE, files |-> {}]

StaleDir == [exists |-> TRUE, files |-> {"stale"}]

\* parts, k: the list the loop iterates over and the index of the current
\* key; years, states: the locals epacems_years and epacems_states; part,
\* table_name: the locals of _etl_epacems_part; chunks: sub-chunks loaded in
\* the current session.  For reference: dim, the partition dimension;
\* all_years, all_states: the validated lists; io0, req0: the lengths of the
\* logs when the adapter was entered.
EpIdle == [parts |-> <<>>, k |-> 0, years |-> <<>>, states |-> <<>>,
           part |-> "", table_name |-> "", chunks |-> 0,
           dim |-> "", all_years |-> <<>>, all_states |-> <<>>,
           io0 |-> 0, req0 |-> 0]

FsInits == { [n \in PkgNames |-> NoDir], [n \in PkgNames |-> StaleDir] }

InitCommon ==
    /\ err = NoErr
    /\ vout = NoErr
    /\ ipkg = 1 /\ ids = 1
    /\ dataset_dicts = <<>>
    /\ validated_settings = <<>>
    /\ iq = 1 /\ ie = 1
    /\ tables = <<>>
    /\ invoked = <<>>
    /\ returned = <<>>
    /\ io = <<>>
    /\ requests = <<>>
    /\ open = <<>>
    /\ ep = EpIdle

InitValidator ==
    /\ entry = "validator" /\ pc = "validator"
    /\ vin \in ValidatorInputs
    /\ bundle = <<>> /\ queue = <<>>
    /\ fs = [n \in PkgNames |-> NoDir]
    /\ InitCommon

InitBundle ==
    /\ entry = "validate_input" /\ pc = "validate_input"
    /\ vin = Item("", EmptyDict)
    /\ bundle \in Bundles /\ queue = <<>>
    /\ fs \in FsInits
    /\ InitCommon

InitEtl ==
    /\ entry = "etl_pkg" /\ pc = "etl_pkg"
    /\ vin = Item("", EmptyDict)
    /\ bundle = <<>>
    /\ \E pkg_settings \in EtlPackages : queue = <<pkg_settings>>
    /\ fs \in FsInits
    /\ InitCommon

Init == InitValidator \/ InitBundle \/ InitEtl

(***************************************************************************)
(* A single validator call                                                 *)
(***************************************************************************)
\* input_validation_functions[dataset](etl_params); a dataset that is not a
\* key of the dict raises KeyError.
input_validation_functions(dataset, etl_params) ==
    CASE dataset = "eia"     -> _validate_input_eia(etl_params)
      [] dataset = "ferc1"   -> _validate_input_ferc1(etl_params)
      [] dataset = "epacems" -> _validate_input_epacems(etl_params)
      [] dataset = "glue"    -> _validate_input_glue(etl_params)
      [] dataset = "epaipm"  -> _validate_input_epaipm(etl_params)
      [] OTHER               -> Raise("KeyError", dataset)

\* etl_params as the validator of the dataset kind leaves it: only the
\* emissions validator writes to its argument.
input_validation_functions_arg(dataset, etl_params) ==
    IF dataset = "epacems" THEN _validate_input_epacems_arg(etl_params)
    ELSE etl_params

\* The dataset dicts of a package with the configuration of the n-th item,
\* counted over all dicts in order, replaced: the dict object a validator
\* was called on, after the call.
RECURSIVE StoreParams(_, _, _)
StoreParams(datasets, n, etl_params) ==
    IF datasets = <<>> THEN <<>>
    ELSE IF n <= Len(Head(datasets))
    THEN <<[Head(datasets) EXCEPT ![n].params = etl_params]>>
             \o Tail(datasets)
    ELSE <<Head(datasets)>>
             \o StoreParams(Tail(datasets), n - Len(Head(datasets)),
                            etl_params)

ValidatorCall ==
    /\ pc = "validator"
    /\ vout' = input_validation_functions(vin.dataset, vin.params)
    /\ vin' = Item(vin.dataset,
                   input_validation_functions_arg(vin.dataset, vin.params))
    /\ pc' = "done"
    /\ UNCHANGED <<entry, err, vars_bundle, vars_etl>>

\* The configuration a validator returned is validated again, as the
\* adapters do with the configurations validate_input hands them.
Revalidate ==
    /\ entry = "validator"
    /\ pc = "done"
    /\ Truthy(vout)
    /\ vin' = Item(vin.dataset,
                   input_validation_functions_arg(vin.dataset, vout.val))
    /\ vout' = input_validation_functions(vin.dataset, vout.val)
    /\ pc' = "revalidated"
    /\ UNCHANGED <<entry, err, vars_bundle, vars_etl>>

(***************************************************************************)
(* validate_input                                                          *)
(***************************************************************************)
\* One turn of the inner loops: validate one dataset item of the package.
ValidateDataset ==
    /\ pc = "validate_input"
    /\ ipkg <= Len(bundle)
    /\ LET items == Flatten(bundle[ipkg].datasets)
       IN  /\ ids <= Len(items)
           /\ LET dataset == items[ids].dataset
                  etl_params ==
                      input_validation_functions(dataset, items[ids].params)
              IN  IF etl_params.out = "raise"
                  THEN /\ pc' = "failed"
                       /\ err' = etl_params
                       /\ UNCHANGED <<ids, dataset_dicts>>
                  ELSE /\ dataset_dicts' =
                             IF Truthy(etl_params)
                             THEN Append(dataset_dicts,
                                         <<Item(dataset, etl_params.val)>>)
                             ELSE dataset_dicts
                       /\ ids' = ids + 1
                       /\ UNCHANGED <<pc, err>>
           /\ bundle' =
                 [bundle EXCEPT ![ipkg].datasets =
                     StoreParams(@, ids,
                         input_validation_functions_arg(
                             items[ids].dataset, items[ids].params))]
    /\ UNCHANGED <<entry, vars_validator, ipkg, validated_settings,
                   vars_etl>>

\* A variant of ValidatePkgEnd without the test 'if dataset_dicts': a
\* package is kept whether or not one of its datasets validated.
ValidatePkgEndKeepsAll ==
    /\ pc = "validate_input"
    /\ ipkg <= Len(bundle)
    /\ ids > Len(Flatten(bundle[ipkg].datasets))
    /\ validated_settings' =
          Append(validated_settings,
                 [name |-> bundle[ipkg].name,
                  title |-> bundle[ipkg].title,
                  description |-> bundle[ipkg].description,
                  datasets |-> dataset_dicts])
    /\ ipkg' = ipkg + 1
    /\ ids' = 1
    /\ dataset_dicts' = <<>>
    /\ UNCHANGED <<entry, pc, err, vars_validator, bundle, vars_etl>>

\* After the last dataset of a package: keep the package if any dataset
\* validated.
ValidatePkgEnd ==
    /\ pc = "validate_input"
    /\ ipkg <= Len(bundle)
    /\ ids > Len(Flatten(bundle[ipkg].datasets))
    /\ validated_settings' =
          IF dataset_dicts # <<>>
          THEN Append(validated_settings,
                      [name |-> bundle[ipkg].name,
                       title |-> bundle[ipkg].title,
                       description |-> bundle[ipkg].description,
                       datasets |-> dataset_dicts])
          ELSE validated_settings
    /\ ipkg' = ipkg + 1
    /\ ids' = 1
    /\ dataset_dicts' = <<>>
    /\ UNCHANGED <<entry, pc, err, vars_validator, bundle, vars_etl>>

\* return validated_settings; the caller then runs etl_pkg on each
\* validated package in turn.
ValidateReturn ==
    /\ pc = "validate_input"
    /\ ipkg > Len(bundle)
    /\ queue' = validated_settings
    /\ pc' = IF validated_settings = <<>> THEN "done" ELSE "etl_pkg"
    /\ UNCHANGED <<entry, err, vars_validator, vars_bundle, iq, ie, tables,
                   invoked, returned, fs, io, requests, open, ep>>

(***************************************************************************)
(* etl_pkg and the non-streaming adapters                                  *)
(***************************************************************************)
\* The position of a dataset kind in the if/elif chain of etl_pkg.
KindIndex(dataset) ==
    CASE dataset = "eia"     -> 1
      [] dataset = "ferc1"   -> 2
      [] dataset = "epacems" -> 3
      [] dataset = "glue"    -> 4
      [] dataset = "epaipm"  -> 5
      [] OTHER               -> 6

\* A variant of etl_order that visits the dataset items kind by kind, in the
\* order of the if/elif chain.
etl_order_by_kind(datasets) ==
    LET items == Flatten(datasets)
        OfKind(n) == SelectSeq(items, LAMBDA it : KindIndex(it.dataset) = n)
    IN  OfKind(1) \o OfKind(2) \o OfKind(3) \o OfKind(4) \o OfKind(5)
            \o OfKind(6)

\* The order in which etl_pkg visits the dataset items of a package.
etl_order(datasets) == Flatten(datasets)

CurItems == etl_order(queue[iq].datasets)

CurItem == CurItems[ie]

pkg_dir == queue[iq].name

\* _prep_directories: the file system calls, and the location afterwards.
_prep_directories_io(dir) ==
    (IF fs[dir].exists THEN <<IO("rmtree", dir)>> ELSE <<>>)
        \o <<IO("mkdir", dir), IO("mkdir", dir \o "/data")>>

\* _prep_directories without the rmtree: the location is created if it is
\* missing and keeps what it holds.
_prep_directories_keeps(dir) == [fs EXCEPT ![dir].exists = TRUE]

_prep_directories(dir) == [fs EXCEPT ![dir] = [exists |-> TRUE, files |-> {}]]

EtlPkgStart ==
    /\ pc = "etl_pkg"
    /\ iq <= Len(queue)
    /\ io' = io \o _prep_directories_io(pkg_dir)
    /\ fs' = _prep_directories(pkg_dir)
    /\ tables' = <<>>
    /\ invoked' = <<>>
    /\ ie' = 1
    /\ pc' = "datasets"
    /\ UNCHANGED <<entry, err, vars_validator, vars_bundle, queue, iq,
                   returned, requests, open, ep>>

\* The files a log of collaborator calls leaves in the output location.
Written(r) == IF r.io = <<>> THEN {} ELSE Range(r.tbls)

\* if tbls: tables.extend(tbls)
Extend(tbls) == IF tbls # <<>> THEN tables \o tbls ELSE tables

\* One branch of the if/elif chain for an adapter that runs in one piece:
\* r is the adapter's outcome.
RunAdapter(dataset, r) ==
    /\ pc = "datasets"
    /\ ie <= Len(CurItems)
    /\ CurItem.dataset = dataset
    /\ invoked' = Append(invoked, dataset)
    /\ IF r.out = "raise"
       THEN /\ pc' = "failed"
            /\ err' = Raise(r.exc, r.msg)
            /\ UNCHANGED <<ie, tables, io, fs>>
       ELSE /\ tables' = Extend(r.tbls)
            /\ io' = io \o r.io
            /\ fs' = [fs EXCEPT ![pkg_dir].files = @ \cup Written(r)]
            /\ ie' = ie + 1
            /\ UNCHANGED <<pc, err>>
    /\ UNCHANGED <<entry, vars_validator, vars_bundle, queue, iq, returned,
                   requests, open, ep>>

EtlEia == RunAdapter("eia", _etl_eia_pkg(CurItem.params))

EtlFerc1 == RunAdapter("ferc1", _etl_ferc1_pkg(CurItem.params))

EtlGlue == RunAdapter("glue", _etl_glue(CurItem.params))

EtlEpaipm == RunAdapter("epaipm", _etl_epaipm(CurItem.params))

\* else: raise AssertionError(f'Invalid dataset {dataset} found in input.')
EtlInvalidDataset ==
    /\ pc = "datasets"
    /\ ie <= Len(CurItems)
    /\ CurItem.dataset \notin Kinds
    /\ pc' = "failed"
    /\ err' = Raise("AssertionError", "Invalid dataset")
    /\ UNCHANGED <<entry, vars_validator, vars_bundle, vars_etl>>

\* return tables
EtlPkgReturn ==
    /\ pc = "datasets"
    /\ ie > Len(CurItems)
    /\ returned' = Append(returned, [name |-> pkg_dir, tables |-> tables])
    /\ iq' = iq + 1
    /\ pc' = IF iq + 1 > Len(queue) THEN "done" ELSE "etl_pkg"
    /\ UNCHANGED <<entry, err, vars_validator, vars_bundle, queue, ie, tables,
                   invoked, fs, io, requests, open, ep>>

(***************************************************************************)
(* The streaming emissions adapter: _etl_epacems_pkg, _etl_epacems_part    *)
(***************************************************************************)
\* _etl_epacems_pkg up to the head of its loop.  The outcome is "raise",
\* "list" (the early return of []) or "loop" (parts is the list the loop
\* iterates over).  epacems_dict has the keys epacems_years, epacems_states
\* and partition; a partition dimension that is none of the three is a key
\* it lacks, and the dimension 'partition' makes the loop iterate over the
\* partition dict itself, that is over its keys: keys is the order in which
\* the dict gives them.
epacems_begin(etl_params, keys) ==
    LET epacems_dict == _validate_input_epacems(etl_params)
        v == epacems_dict.val
        stop(out, e, m) ==
            [out |-> out, exc |-> e, msg |-> m, dim |-> "", parts |-> <<>>,
             years |-> <<>>, states |-> <<>>]
    IN  IF epacems_dict.out = "raise"
        THEN stop("raise", epacems_dict.exc, epacems_dict.msg)
        ELSE IF epacems_dict.out = "None"
        THEN stop("raise", "TypeError",
                  "'NoneType' object is not subscriptable")
        ELSE IF v.epacems_states = <<>> \/ v.epacems_years = <<>>
        THEN stop("list", "", "")
        ELSE IF epacems_tables \notin DOMAIN v.partition
        THEN stop("raise", "KeyError", epacems_tables)
        ELSE IF v.partition[epacems_tables] \notin DOMAIN v
        THEN stop("raise", "KeyError", v.partition[epacems_tables])
        ELSE [out |-> "loop", exc |-> "", msg |-> "",
              dim |-> v.partition[epacems_tables],
              parts |-> IF v.partition[epacems_tables] = "partition"
                        THEN keys
                        ELSE v[v.partition[epacems_tables]],
              years |-> v.epacems_years, states |-> v.epacems_states]

\* The orders in which the partition dict of the validated configuration
\* can give its keys.
partition_keys(etl_params) ==
    LET epacems_dict == _validate_input_epacems(etl_params)
    IN  IF epacems_dict.out = "dict"
        THEN KeyOrders(epacems_dict.val.partition)
        ELSE {<<>>}

EpacemsStart ==
    /\ pc = "datasets"
    /\ ie <= Len(CurItems)
    /\ CurItem.dataset = "epacems"
    /\ invoked' = Append(invoked, "epacems")
    /\ \E keys \in partition_keys(CurItem.params) :
       LET b == epacems_begin(CurItem.params, keys)
       IN  CASE b.out = "raise" ->
                  /\ pc' = "failed"
                  /\ err' = Raise(b.exc, b.msg)
                  /\ UNCHANGED <<ie, ep>>
             [] b.out = "list" ->
                  /\ ie' = ie + 1
                  /\ UNCHANGED <<pc, err, ep>>
             [] b.out = "loop" ->
                  /\ ep' = [EpIdle EXCEPT !.parts = b.parts, !.k = 1,
                                          !.years = b.years,
                                          !.states = b.states,
                                          !.dim = b.dim,
                                          !.all_years = b.years,
                                          !.all_states = b.states,
                                          !.io0 = Len(io),
                                          !.req0 = Len(requests)]
                  /\ pc' = "epacems_part"
                  /\ UNCHANGED <<ie, err>>
    /\ queue' = [queue EXCEPT ![iq].datasets =
                    StoreParams(@, ie,
                        _validate_input_epacems_arg(CurItem.params))]
    /\ UNCHANGED <<entry, vars_validator, vars_bundle, iq, tables,
                   returned, fs, io, requests, open>>

\* Lines 385-388: narrowing of the two local lists by the partition key.
narrow(part, lst) == IF part \in Range(lst) THEN <<part>> ELSE lst

\* Lines 344-345: the request sent to the extraction collaborator.
extract_request(part, epacems_years, epacems_states) ==
    [years |-> <<part>>, states |-> epacems_states]

\* Line 352
\* The table name without the partition key: every partition is written
\* under the aggregate name.
table_name_of_aggregate(part) == "hourly_emissions_epacems"

table_name_of(part) == "hourly_emissions_epacems_" \o part

\* One turn of the loop up to the with statement: the two generators are
\* created; nothing is extracted yet.
EpacemsPart ==
    /\ pc = "epacems_part"
    /\ ep.k <= Len(ep.parts)
    /\ LET part == ep.parts[ep.k]
           epacems_years == narrow(part, ep.years)
           epacems_states == narrow(part, ep.states)
       IN  /\ requests' = Append(requests,
                  extract_request(part, epacems_years, epacems_states))
           /\ ep' = [ep EXCEPT !.years = epacems_years,
                               !.states = epacems_states,
                               !.part = part,
                               !.table_name = table_name_of(part),
                               !.chunks = 0]
    /\ io' = io \o <<IO("extract", "epacems"), IO("transform", "epacems")>>
    /\ pc' = "epacems_open"
    /\ UNCHANGED <<entry, err, vars_validator, vars_bundle, queue, iq, ie,
                   tables, invoked, returned, fs, open>>

\* with pudl.load.BulkCopyPkg(table_name=table_name, ...) as loader
EpacemsOpen ==
    /\ pc = "epacems_open"
    /\ open' = Append(open, ep.table_name)
    /\ io' = Append(io, IO("open", ep.table_name))
    /\ fs' = [fs EXCEPT ![pkg_dir].files = @ \cup {ep.table_name}]
    /\ pc' = "epacems_load"
    /\ UNCHANGED <<entry, err, vars_validator, vars_bundle, queue, iq, ie,
                   tables, invoked, returned, requests, ep>>

\* The number of sub-chunks a log of collaborator calls has loaded.
Loaded(log) == Len(SelectSeq(log, LAMBDA e : e.op = "add"))

\* The generators yield the next sub-chunk, which is added to the session.
\* A run loads at most MaxChunks sub-chunks in all.
EpacemsAdd ==
    /\ pc = "epacems_load"
    /\ Loaded(io) < MaxChunks
    /\ io' = Append(io, IOAdd(ep.table_name, ep.part))
    /\ ep' = [ep EXCEPT !.chunks = @ + 1]
    /\ UNCHANGED <<entry, pc, err, vars_validator, vars_bundle, queue, iq, ie,
                   tables, invoked, returned, fs, requests, open>>

\* The generators raise while the next sub-chunk is being produced.
EpacemsRaise ==
    /\ pc = "epacems_load"
    /\ err' = Raise("RuntimeIOError", "sub-chunk")
    /\ pc' = "epacems_unwind"
    /\ UNCHANGED <<entry, vars_validator, vars_bundle, vars_etl>>

\* What leaving the with statement does to the open sessions.
release(sessions) == SubSeq(sessions, 1, Len(sessions) - 1)

\* A variant of EpacemsRelease without the with statement: the exception
\* leaves _etl_epacems_part and the session stays open.
EpacemsReleaseSkipped ==
    /\ pc = "epacems_unwind"
    /\ pc' = "failed"
    /\ UNCHANGED <<entry, err, vars_validator, vars_bundle, vars_etl>>

\* The with statement is left by the exception: the session is released and
\* the exception leaves _etl_epacems_part, _etl_epacems_pkg and etl_pkg.
EpacemsRelease ==
    /\ pc = "epacems_unwind"
    /\ open' = release(open)
    /\ io' = Append(io, IO("close", ep.table_name))
    /\ pc' = "failed"
    /\ UNCHANGED <<entry, err, vars_validator, vars_bundle, queue, iq, ie,
                   tables, invoked, returned, fs, requests, ep>>

\* A variant of EpacemsClose that goes on to the next key without closing
\* the session.
EpacemsCloseSkipped ==
    /\ pc = "epacems_load"
    /\ ep' = [ep EXCEPT !.k = @ + 1]
    /\ pc' = "epacems_part"
    /\ UNCHANGED <<entry, err, vars_validator, vars_bundle, queue, iq, ie,
                   tables, invoked, returned, fs, io, requests, open>>

\* The generators are exhausted: the with statement is left normally and
\* _etl_epacems_part returns.
EpacemsClose ==
    /\ pc = "epacems_load"
    /\ open' = release(open)
    /\ io' = Append(io, IO("close", ep.table_name))
    /\ ep' = [ep EXCEPT !.k = @ + 1]
    /\ pc' = "epacems_part"
    /\ UNCHANGED <<entry, err, vars_validator, vars_bundle, queue, iq, ie,
                   tables, invoked, returned, fs, requests>>

\* return(['hourly_emissions_epacems'])
EpacemsReturn ==
    /\ pc = "epacems_part"
    /\ ep.k > Len(ep.parts)
    /\ tables' = Extend(<<"hourly_emissions_epacems">>)
    /\ ie' = ie + 1
    /\ ep' = EpIdle
    /\ pc' = "datasets"
    /\ UNCHANGED <<entry, err, vars_validator, vars_bundle, queue, iq,
                   invoked, returned, fs, io, requests, open>>

(***************************************************************************)
(* Specification                                                           *)
(***************************************************************************)
Next ==
    \/ ValidatorCall
    \/ Revalidate
    \/ ValidateDataset
    \/ ValidatePkgEnd
    \/ ValidateReturn
    \/ EtlPkgStart
    \/ EtlEia
    \/ EtlFerc1
    \/ EtlGlue
    \/ EtlEpaipm
    \/ EtlInvalidDataset
    \/ EtlPkgReturn
    \/ EpacemsStart
    \/ EpacemsPart
    \/ EpacemsOpen
    \/ EpacemsAdd
    \/ EpacemsRaise
    \/ EpacemsRelease
    \/ EpacemsClose
    \/ EpacemsReturn

Spec == Init /\ [][Next]_vars

(***************************************************************************)
(* Properties of the streaming emissions adapter                           *)
(***************************************************************************)
InEpacems ==
    pc \in {"epacems_part", "epacems_open", "epacems_load", "epacems_unwind"}

\* The collaborator calls of the emissions adapter that is running.
EpLog == SubSeq(io, ep.io0 + 1, Len(io))

\* The extraction requests of the emissions adapter that is running.
EpRequests == SubSeq(requests, ep.req0 + 1, Len(requests))

IsSession(e) == e.op \in {"open", "close"}

IsOpen(e) == e.op = "open"

IsClose(e) == e.op = "close"

IsAdd(e) == e.op = "add"

SessionName(part) == "hourly_emissions_epacems_" \o part

\* C1: in a run of the emissions adapter in which nothing has failed, the
\* writer sessions are opened and closed one per partition key, in key-list
\* order, each closed before the next is opened: when the loop is at key k,
\* k-1 sessions have been opened and closed, and after a list of N keys
\* exactly N.  At most one session is open in any state, and every sub-chunk
\* is added to the session of the key whose extraction produced it.
C1_OneSessionPerKey ==
    /\ Len(open) <= 1
    /\ (InEpacems /\ pc # "epacems_unwind") =>
         LET sess == SelectSeq(EpLog, IsSession)
         IN  /\ \A i \in 1..Len(sess) :
                   /\ sess[i].op = (IF i % 2 = 1 THEN "open" ELSE "close")
                   /\ (i + 1) \div 2 <= Len(ep.parts)
                   /\ sess[i].arg = SessionName(ep.parts[(i + 1) \div 2])
             /\ Len(sess) = (IF pc = "epacems_load" THEN 2 * ep.k - 1
                             ELSE 2 * (ep.k - 1))
             /\ open = (IF pc = "epacems_load"
                        THEN <<SessionName(ep.parts[ep.k])>> ELSE <<>>)
             /\ \A i \in 1..Len(EpLog) :
                   EpLog[i].op = "add" =>
                      LET before == SubSeq(EpLog, 1, i)
                          j == Len(SelectSeq(before, IsOpen))
                      IN  /\ j >= 1
                          /\ Len(SelectSeq(before, IsClose)) = j - 1
                          /\ EpLog[i].part = ep.parts[j]
                          /\ EpLog[i].arg = SessionName(ep.parts[j])

\* The loop has gone through a list of three keys, with sub-chunks loaded.
C1_Witness ==
    /\ pc = "epacems_part"
    /\ Len(ep.parts) = 3
    /\ ep.k = 4
    /\ Len(SelectSeq(EpLog, IsOpen)) = 3
    /\ Len(SelectSeq(EpLog, IsClose)) = 3
    /\ Len(SelectSeq(EpLog, IsAdd)) >= 2

\* C2: when the extraction or transformation collaborator fails on a
\* sub-chunk while a partition's session is open, the session has been
\* released when the error has left etl_pkg (no session is open in the failed
\* state), only the keys up to the failing one have been extracted and given
\* a session, and nothing happens after the failure.
C2_ReleasedBeforeErrorLeaves ==
    /\ [](pc = "failed" /\ err.exc = "RuntimeIOError" =>
            /\ open = <<>>
            /\ io[Len(io)] = IO("close", SessionName(ep.parts[ep.k]))
            /\ Len(EpRequests) = ep.k
            /\ Len(SelectSeq(EpLog, IsOpen)) = ep.k
            /\ Len(SelectSeq(EpLog, IsClose)) = ep.k)
    /\ [][pc = "failed" =>
            /\ pc' = "failed"
            /\ requests' = requests
            /\ io' = io
            /\ open' = open]_vars

\* The 2nd sub-chunk of a partition failed, with later keys still to come.
C2_Witness ==
    /\ pc = "failed"
    /\ err.exc = "RuntimeIOError"
    /\ ep.chunks = 1
    /\ ep.k < Len(ep.parts)
    /\ open = <<>>

\* C3: every extraction request of the emissions adapter is scoped to its
\* partition key on the partition dimension and to the full requested list
\* on the other dimension.
C3_RequestScopedToKey ==
    InEpacems =>
       \A j \in 1..Len(EpRequests) :
          IF ep.dim = "epacems_years"
          THEN /\ EpRequests[j].years = <<ep.parts[j]>>
               /\ EpRequests[j].states = ep.all_states
          ELSE /\ EpRequests[j].years = ep.all_years
               /\ EpRequests[j].states = <<ep.parts[j]>>

(***************************************************************************)
(* Properties of the validators                                            *)
(***************************************************************************)
ValidatorDone(dataset) ==
    entry = "validator" /\ pc = "done" /\ vin.dataset = dataset

\* A list of the raw configuration, empty when the key is absent.
RawList(k) == Get(vin.params, k, <<>>)

\* C4: when _validate_input_eia returns a config: if the raw configuration
\* has eia860 years and no (or empty) eia923 years, the result's eia923
\* years are the eia860 years and its eia923 tables are exactly boiler_fuel
\* and generation; if it has eia923 years and no eia860 years, the result's
\* eia860 years are the eia923 years; if it has both, years and tables are
\* those of the raw configuration (the defaults for absent tables).
C4_EiaYearsCoupled ==
    (ValidatorDone("eia") /\ vout.out = "dict") =>
       LET y860 == RawList("eia860_years")
           y923 == RawList("eia923_years")
       IN  /\ (y860 # <<>> /\ y923 = <<>>) =>
                 /\ vout.val.eia923_years = y860
                 /\ vout.val.eia860_years = y860
                 /\ vout.val.eia923_tables =
                       <<"boiler_fuel_eia923", "generation_eia923">>
           /\ (y923 # <<>> /\ y860 = <<>>) =>
                 /\ vout.val.eia860_years = y923
                 /\ vout.val.eia923_years = y923
           /\ (y923 # <<>> /\ y860 # <<>>) =>
                 /\ vout.val.eia860_years = y860
                 /\ vout.val.eia923_years = y923
                 /\ vout.val.eia860_tables =
                       Get(vin.params, "eia860_tables", pudl_tables_eia860)
                 /\ vout.val.eia923_tables =
                       Get(vin.params, "eia923_tables", pudl_tables_eia923)

\* Only eia860 years given, together with eia923 tables of the caller's
\* choice, which the result replaces.
C4_Witness ==
    /\ ValidatorDone("eia")
    /\ vout.out = "dict"
    /\ RawList("eia860_years") = <<"2016">>
    /\ "eia923_years" \notin DOMAIN vin.params
    /\ RawList("eia923_tables") = <<"fuel_receipts_costs_eia923">>
    /\ vout.val.eia923_years = <<"2016">>
    /\ vout.val.eia923_tables = <<"boiler_fuel_eia923", "generation_eia923">>

NotAll(S, lst) == \E x \in Range(lst) : x \notin S

\* The raw configuration asks for a table, year or state outside the fixed
\* universe of its kind (tables of a ferc1 configuration with debug set do
\* not count).
OutsideUniverse(dataset, p) ==
    CASE dataset = "eia" ->
            \/ NotAll(working_years_eia860, Get(p, "eia860_years", <<>>))
            \/ NotAll(working_years_eia923, Get(p, "eia923_years", <<>>))
            \/ NotAll(eia860_pudl_tables, Get(p, "eia860_tables", <<>>))
            \/ NotAll(eia923_pudl_tables, Get(p, "eia923_tables", <<>>))
      [] dataset = "ferc1" ->
            \/ NotAll(working_years_ferc1, Get(p, "ferc1_years", <<>>))
            \/ /\ ~Get(p, "debug", FALSE)
               /\ NotAll(ferc1_pudl_tables, Get(p, "ferc1_tables", <<>>))
      [] dataset = "epacems" ->
            \/ NotAll(working_years_epacems, Get(p, "epacems_years", <<>>))
            \/ NotAll(Range(cems_states_keys) \cup {"all", "ALL", "All"},
                      Get(p, "epacems_states", <<>>))
      [] dataset = "epaipm" ->
            NotAll(epaipm_pudl_tables, Get(p, "epaipm_tables", <<>>))
      [] OTHER -> FALSE

\* C5: a validator rejects, with a configuration error, every raw
\* configuration that asks for a table, year or state outside the fixed
\* universe of its kind.
C5_OutsideUniverseRejected ==
    (entry = "validator" /\ pc = "done"
        /\ OutsideUniverse(vin.dataset, vin.params)) =>
       (vout.out = "raise" /\ vout.exc = "AssertionError")

\* The partition dimension of a raw emissions configuration cannot be
\* resolved.
Unresolvable(p) ==
    \/ "partition" \notin DOMAIN p
    \/ epacems_tables \notin DOMAIN p["partition"]
    \/ p["partition"][epacems_tables] \notin DOMAIN p

\* C6: _validate_input_epacems rejects, with a configuration error, every
\* emissions configuration whose partition dimension cannot be resolved, and
\* no such configuration reaches the partition loop of _etl_epacems_pkg.
C6_UnresolvablePartitionRejected ==
    /\ (ValidatorDone("epacems") /\ Unresolvable(vin.params)) =>
          (vout.out = "raise" /\ vout.exc = "AssertionError")
    /\ InEpacems => ~Unresolvable(CurItem.params)

(***************************************************************************)
(* Properties of validate_input                                            *)
(***************************************************************************)
\* The dataset dicts validate_input is to keep of a list of dataset items.
RECURSIVE KeptItems(_)
KeptItems(items) ==
    IF items = <<>> THEN <<>>
    ELSE LET r == input_validation_functions(Head(items).dataset,
                                             Head(items).params)
         IN  (IF r.out = "dict" /\ DOMAIN r.val # {}
              THEN << <<Item(Head(items).dataset, r.val)>> >>
              ELSE <<>>) \o KeptItems(Tail(items))

\* The packages validate_input is to return for a list of packages.
RECURSIVE KeptPackages(_)
KeptPackages(pkgs) ==
    IF pkgs = <<>> THEN <<>>
    ELSE LET kept == KeptItems(Flatten(Head(pkgs).datasets))
         IN  (IF kept # <<>>
              THEN <<[name |-> Head(pkgs).name,
                      title |-> Head(pkgs).title,
                      description |-> Head(pkgs).description,
                      datasets |-> kept]>>
              ELSE <<>>) \o KeptPackages(Tail(pkgs))

ValidateInputReturned == entry = "validate_input" /\ ipkg > Len(bundle)

\* C7: validate_input returns, in input order, exactly the packages with at
\* least one dataset entry whose validator result is neither None nor an
\* empty mapping, each with its name, title and description and, in input
\* order, exactly those dataset entries; while it runs, validated_settings
\* holds this for the packages gone through so far.
C7_KeepsValidatedEntries ==
    /\ (entry = "validate_input" /\ pc = "validate_input"
           /\ ipkg <= Len(bundle)) =>
          validated_settings = KeptPackages(SubSeq(bundle, 1, ipkg - 1))
    /\ ValidateInputReturned => validated_settings = KeptPackages(bundle)

\* Of two packages the first was dropped and the second kept, without some
\* of its dataset entries.
C7_Witness ==
    /\ ValidateInputReturned
    /\ Len(bundle) = 2
    /\ Len(validated_settings) = 1
    /\ validated_settings[1].name = bundle[2].name
    /\ Len(validated_settings[1].datasets) = 2
    /\ Len(Flatten(bundle[2].datasets)) = 4

\* Every package of the bundle holds only empty dataset configurations.
AllEmpty(b) ==
    /\ b # <<>>
    /\ \A i \in 1..Len(b) :
          \A it \in Range(Flatten(b[i].datasets)) :
             it.dataset \in Kinds /\ DOMAIN it.params = {}

\* C8: bundle validation of packages that hold only empty dataset
\* configurations raises no error and yields an empty validated bundle.
C8_EmptyConfigsYieldEmptyBundle ==
    (entry = "validate_input" /\ AllEmpty(bundle)) =>
       (pc # "failed" /\ validated_settings = <<>>)

(***************************************************************************)
(* Properties of etl_pkg                                                   *)
(***************************************************************************)
\* etl_pkg is running on the package queue[iq].
InEtlPkg == pc \notin {"validator", "validate_input", "etl_pkg", "done"}
               /\ iq <= Len(queue)

\* The configuration of a dataset item resolves to 'not requested'.
NotRequested(it) ==
    /\ it.dataset \in {"eia", "ferc1", "epacems", "glue"}
    /\ LET r == input_validation_functions(it.dataset, it.params)
       IN  r.out = "None" \/ (r.out = "dict" /\ DOMAIN r.val = {})

\* C9: an adapter that is invoked with a configuration that resolves to
\* 'not requested' does not raise.
C9_NotRequestedReturnsEmpty ==
    (InEtlPkg /\ pc = "failed" /\ ie <= Len(CurItems)) =>
       ~NotRequested(CurItem)

\* C10, as stated: the adapters of one package are invoked in the order of
\* the if/elif chain over the dataset kinds, whatever the order of the
\* entries in the package configuration.
C10_EnumerationOrder ==
    InEtlPkg =>
       \A i, j \in 1..Len(invoked) :
          i < j => KindIndex(invoked[i]) <= KindIndex(invoked[j])

\* The list of tables an adapter returns for a dataset item.
AdapterTables(it) ==
    CASE it.dataset = "eia"     -> _etl_eia_pkg(it.params).tbls
      [] it.dataset = "ferc1"   -> _etl_ferc1_pkg(it.params).tbls
      [] it.dataset = "glue"    -> _etl_glue(it.params).tbls
      [] it.dataset = "epaipm"  -> _etl_epaipm(it.params).tbls
      [] it.dataset = "epacems" ->
            IF epacems_begin(it.params, <<>>).out = "loop"
            THEN <<"hourly_emissions_epacems">> ELSE <<>>
      [] OTHER -> <<>>

RECURSIVE AllTables(_)
AllTables(items) ==
    IF items = <<>> THEN <<>>
    ELSE AdapterTables(Head(items)) \o AllTables(Tail(items))

\* C10, amended: the adapters of one package are invoked in the order of
\* the entries in the package configuration, and the table list is the
\* concatenation of their results in that order.
C10_ConfigurationOrder ==
    /\ InEtlPkg =>
          LET items == Flatten(queue[iq].datasets)
          IN  /\ Len(invoked) <= Len(items)
              /\ \A i \in 1..Len(invoked) : invoked[i] = items[i].dataset
              /\ pc = "datasets" =>
                    /\ Len(invoked) = ie - 1
                    /\ tables = AllTables(SubSeq(items, 1, ie - 1))
    /\ \A j \in 1..Len(returned) :
          returned[j].tables = AllTables(Flatten(queue[j].datasets))

\* A package that lists ferc1 before eia: both adapters have run, ferc1
\* first, and the tables of ferc1 come first.
C10_Witness ==
    /\ InEtlPkg
    /\ pc = "datasets"
    /\ invoked = <<"ferc1", "eia">>
    /\ Len(tables) > 2
    /\ tables[1] = "fuel_ferc1"


\* The output location of the package etl_pkg is running on is as it was
\* before the call.
LocationUntouched == fs[pkg_dir] \in {NoDir, StaleDir}

\* C11: a dataset kind that is not one of the five recognized kinds is
\* reported as a configuration error before any I/O for the package: when
\* etl_pkg raises 'Invalid dataset' the output location of the package is
\* as it was before the call and no adapter of the package has run; and
\* validate_input fails with the same kind of error (AssertionError) on
\* such a kind.
C11_InvalidDatasetBeforeIO ==
    /\ (InEtlPkg /\ pc = "failed" /\ err.msg = "Invalid dataset") =>
          /\ LocationUntouched
          /\ invoked = <<>>
          /\ \A i \in 1..Len(io) : io[i].op \notin {"rmtree", "mkdir"}
    /\ (entry = "validate_input" /\ pc = "failed" /\ ipkg <= Len(bundle)
           /\ Flatten(bundle[ipkg].datasets)[ids].dataset \notin Kinds) =>
          err.exc = "AssertionError"


\* The etl_pkg calls begun so far in the run, as a count of queue entries.
Started ==
    IF InEtlPkg THEN iq
    ELSE IF pc \in {"etl_pkg", "done"} THEN iq - 1 ELSE 0

\* The positions of the log at which the location dir was created.
Resets(dir) == {i \in DOMAIN io : io[i] = IO("mkdir", dir)}

\* C12: in every run of etl_pkg the reset of the output location (delete
\* if present, create, create the data subdirectory) happens exactly once
\* per call, is complete before any adapter of the package writes, and
\* leaves the location without its prior contents whether or not it
\* existed.
C12_ResetOnceBeforeWriters ==
    /\ \A n \in PkgNames :
          /\ Cardinality(Resets(n))
                = Cardinality({j \in 1..Started : queue[j].name = n})
          /\ Cardinality(Resets(n \o "/data")) = Cardinality(Resets(n))
    /\ InEtlPkg =>
          /\ \E j \in DOMAIN io :
                /\ io[j] = IO("mkdir", pkg_dir \o "/data")
                /\ j > 1
                /\ io[j - 1] = IO("mkdir", pkg_dir)
                /\ (j > 2 /\ io[j - 2].op = "rmtree")
                      => io[j - 2] = IO("rmtree", pkg_dir)
                /\ \A i \in (j + 1)..Len(io) :
                      io[i].op \notin {"rmtree", "mkdir"}
          /\ fs[pkg_dir].exists
          /\ "stale" \notin fs[pkg_dir].files
          /\ (pc = "datasets" /\ ie = 1) => fs[pkg_dir].files = {}

\* A package whose location held files of an earlier run has been reset
\* and its first adapter has written.
C12_Witness ==
    /\ InEtlPkg
    /\ pc = "datasets"
    /\ ie = 2
    /\ io[1] = IO("rmtree", pkg_dir)
    /\ \E i \in DOMAIN io : io[i].op = "dict_dump"
    /\ fs[pkg_dir].files # {}


\* The static tables of a dataset kind, and the writer call that dumps them.
StaticTablesOf(dataset) ==
    CASE dataset = "eia"    -> static_tables_eia
      [] dataset = "ferc1"  -> static_tables_ferc
      [] dataset = "epaipm" -> static_tables_epaipm
      [] OTHER -> <<>>

StaticDumpOf(source) ==
    CASE source = "eia923" -> _load_static_tables_eia
      [] source = "ferc1"  -> _load_static_tables_ferc
      [] source = "epaipm" -> _load_static_tables_epaipm
      [] OTHER -> <<>>

\* A dataset item of a kind with static tables that requests no dynamic
\* data: no years, or no tables.
NoDynamic(it) ==
    CASE it.dataset = "eia" ->
            \/ /\ Get(it.params, "eia860_years", <<>>) = <<>>
               /\ Get(it.params, "eia923_years", <<>>) = <<>>
            \/ /\ Get(it.params, "eia860_tables", <<None>>) = <<>>
               /\ Get(it.params, "eia923_tables", <<None>>) = <<>>
      [] it.dataset = "ferc1" ->
            \/ Get(it.params, "ferc1_years", <<None>>) = <<>>
            \/ Get(it.params, "ferc1_tables", <<None>>) = <<>>
      [] it.dataset = "epaipm" ->
            Get(it.params, "epaipm_tables", <<>>) = <<>>
      [] OTHER -> FALSE

\* C13: a package in which a kind with static tables (eia, ferc1, epaipm)
\* is present but requests no dynamic data still has the static tables of
\* the kind written, and their names are in the list of tables; and an
\* adapter that writes both writes its static tables before it extracts.
C13_StaticTablesUnconditional ==
    /\ InEtlPkg =>
          \A i \in 1..Len(CurItems) :
             (/\ i < ie \/ (i = ie /\ pc = "failed")
              /\ NoDynamic(CurItems[i])) =>
                /\ ~(i = ie /\ pc = "failed")
                /\ Range(StaticTablesOf(CurItems[i].dataset))
                      \subseteq Range(tables)
                /\ Range(StaticTablesOf(CurItems[i].dataset))
                      \subseteq fs[pkg_dir].files
    /\ \A i \in DOMAIN io :
          (io[i].op = "extract" /\ StaticDumpOf(io[i].arg) # <<>>) =>
             /\ i > 1
             /\ <<io[i - 1]>> = StaticDumpOf(io[i].arg)


\* A validator has been applied to the configuration it returned: vin holds
\* that configuration and vout the result of the second validation.
Revalidated == entry = "validator" /\ pc = "revalidated"

\* C14: for every dataset kind and every raw configuration that validates
\* to a configuration, validating that configuration again succeeds and
\* yields an equal configuration, an emissions configuration partitioned by
\* a key of the raw configuration included.
C14_RevalidationIsIdentity ==
    Revalidated => (vout.out = "dict" /\ vout.val = vin.params)


\* The names of the writer sessions of the log, in the order they were
\* opened.
OpenedNames(log) ==
    LET opens == SelectSeq(log, IsOpen)
    IN  [i \in 1..Len(opens) |-> opens[i].arg]

\* The sessions of the emissions adapter that is running carry the name of
\* their partition key, distinct keys have distinct names, and no session
\* name is in a list of tables etl_pkg builds or has returned.
C15_PartitionNamesStayInternal ==
    /\ InEpacems =>
          LET names == OpenedNames(EpLog)
          IN  /\ Len(names) <= Len(ep.parts)
              /\ \A i \in 1..Len(names) :
                    names[i] = "hourly_emissions_epacems_" \o ep.parts[i]
              /\ \A i, j \in 1..Len(names) :
                    ep.parts[i] # ep.parts[j] => names[i] # names[j]
    /\ \A n \in Range(OpenedNames(io)) :
          /\ n \notin Range(tables)
          /\ \A j \in 1..Len(returned) : n \notin Range(returned[j].tables)

\* The emissions adapter returns after a loop over at least one partition
\* key, and etl_pkg extends its list by the aggregate name alone.
C15_ReturnsAggregate ==
    (pc = "epacems_part" /\ pc' = "datasets") =>
       /\ Len(ep.parts) >= 1
       /\ Len(OpenedNames(EpLog)) = Len(ep.parts)
       /\ tables' = tables \o <<"hourly_emissions_epacems">>

\* C15: an emissions adapter that processes at least one requested year and
\* state returns exactly the one aggregate name 'hourly_emissions_epacems'
\* whatever the number of partition keys; each key p is written through a
\* session named 'hourly_emissions_epacems_<p>', distinct keys under
\* distinct names; and no per-partition name is in the list of tables
\* etl_pkg returns.
C15_AggregateTableName ==
    /\ []C15_PartitionNamesStayInternal
    /\ [][C15_ReturnsAggregate]_vars

\* An emissions adapter has returned after three partitions, and the list
\* of tables of the package is the aggregate name.
C15_Witness ==
    /\ InEtlPkg
    /\ pc = "datasets"
    /\ invoked # <<>>
    /\ invoked[Len(invoked)] = "epacems"
    /\ Cardinality(Range(OpenedNames(io))) = 3
    /\ tables = <<"hourly_emissions_epacems">>


\* C16: the package names of the bundle validate_input returns are unique,
\* for any input bundle, so that etl_pkg run over the validated packages
\* one after another never resets an output location that an earlier
\* package of the bundle has written.
C16_UniquePackageNames ==
    /\ \A i, j \in 1..Len(validated_settings) :
          i # j => validated_settings[i].name # validated_settings[j].name
    /\ (entry = "validate_input" /\ InEtlPkg) =>
          \A j \in 1..(iq - 1) :
             (returned[j].tables # <<>>) => queue[j].name # pkg_dir

=============================================================================
